---- MODULE Spec2Model ----
(***************************************************************************)
(* Model of tailwind.config.js: the object literal assigned to             *)
(* module.exports, evaluated with the semantics of a JavaScript object     *)
(* literal (properties are defined in source order, a later declaration of *)
(* a key replaces an earlier one), and the life cycle of the exported      *)
(* record inside one build-tool invocation: the module is loaded once, its *)
(* fields are read by property access, and the record is dropped.          *)
(*                                                                         *)
(* String literals whose characters matter (the colour values) are         *)
(* sequences of one-character strings; all other literals are strings.     *)
(***************************************************************************)
EXTENDS Integers, Sequences, FiniteSets, TLC

VARIABLES phase, config, reads

vars == <<phase, config, reads>>

(* Largest number of property reads followed in one invocation. *)
MaxReads == 2

---------------------------------------------------------------------------
(* The declarations of the source, in source order. *)

(* Variant: the content array declared without any glob. *)
ContentDeclEmpty == << >>

(* content: [ "./frontend/**/*.{html,js}", ] *)
ContentDecl == << "./frontend/**/*.{html,js}" >>

(* Variant: 'mono' declared with an empty fallback list. *)
FontFamilyDeclEmptyList ==
  << [key |-> "arcade", value |-> << "\"Press Start 2P\"", "cursive" >>],
     [key |-> "mono",   value |-> << >>] >>

(* Variant: 'arcade' declared with a second fallback. *)
FontFamilyDeclExtraFallback ==
  << [key |-> "arcade",
      value |-> << "\"Press Start 2P\"", "cursive", "sans-serif" >>],
     [key |-> "mono",   value |-> << "\"JetBrains Mono\"", "monospace" >>] >>

(* fontFamily: { 'arcade': [...], 'mono': [...], } *)
FontFamilyDecl ==
  << [key |-> "arcade", value |-> << "\"Press Start 2P\"", "cursive" >>],
     [key |-> "mono",   value |-> << "\"JetBrains Mono\"", "monospace" >>] >>

(* Variant: 'neon-green' written with a character that is no hex digit. *)
ColorsDeclBadHex ==
  << [key |-> "void",       value |-> << "#", "0", "9", "0", "9", "0", "b" >>],
     [key |-> "void-light", value |-> << "#", "1", "8", "1", "8", "1", "b" >>],
     [key |-> "neon-cyan",  value |-> << "#", "0", "0", "f", "3", "f", "f" >>],
     [key |-> "neon-pink",  value |-> << "#", "f", "f", "0", "0", "f", "f" >>],
     [key |-> "neon-green", value |-> << "#", "3", "9", "f", "f", "1", "g" >>],
     [key |-> "grid-line",  value |-> << "#", "2", "7", "2", "7", "2", "a" >>] >>

(* Variant: 'void' written in upper case. *)
ColorsDeclUpperVoid ==
  << [key |-> "void",       value |-> << "#", "0", "9", "0", "9", "0", "B" >>],
     [key |-> "void-light", value |-> << "#", "1", "8", "1", "8", "1", "b" >>],
     [key |-> "neon-cyan",  value |-> << "#", "0", "0", "f", "3", "f", "f" >>],
     [key |-> "neon-pink",  value |-> << "#", "f", "f", "0", "0", "f", "f" >>],
     [key |-> "neon-green", value |-> << "#", "3", "9", "f", "f", "1", "4" >>],
     [key |-> "grid-line",  value |-> << "#", "2", "7", "2", "7", "2", "a" >>] >>

(* Variant: the second declaration repeats the key 'void'. *)
ColorsDeclDupKey ==
  << [key |-> "void",       value |-> << "#", "0", "9", "0", "9", "0", "b" >>],
     [key |-> "void",       value |-> << "#", "1", "8", "1", "8", "1", "b" >>],
     [key |-> "neon-cyan",  value |-> << "#", "0", "0", "f", "3", "f", "f" >>],
     [key |-> "neon-pink",  value |-> << "#", "f", "f", "0", "0", "f", "f" >>],
     [key |-> "neon-green", value |-> << "#", "3", "9", "f", "f", "1", "4" >>],
     [key |-> "grid-line",  value |-> << "#", "2", "7", "2", "7", "2", "a" >>] >>

(* Variant: 'grid-line' repeats the value of 'void-light'. *)
ColorsDeclDupValue ==
  << [key |-> "void",       value |-> << "#", "0", "9", "0", "9", "0", "b" >>],
     [key |-> "void-light", value |-> << "#", "1", "8", "1", "8", "1", "b" >>],
     [key |-> "neon-cyan",  value |-> << "#", "0", "0", "f", "3", "f", "f" >>],
     [key |-> "neon-pink",  value |-> << "#", "f", "f", "0", "0", "f", "f" >>],
     [key |-> "neon-green", value |-> << "#", "3", "9", "f", "f", "1", "4" >>],
     [key |-> "grid-line",  value |-> << "#", "1", "8", "1", "8", "1", "b" >>] >>

(* colors: { 'void': '#09090b', ... } *)
ColorsDecl ==
  << [key |-> "void",       value |-> << "#", "0", "9", "0", "9", "0", "b" >>],
     [key |-> "void-light", value |-> << "#", "1", "8", "1", "8", "1", "b" >>],
     [key |-> "neon-cyan",  value |-> << "#", "0", "0", "f", "3", "f", "f" >>],
     [key |-> "neon-pink",  value |-> << "#", "f", "f", "0", "0", "f", "f" >>],
     [key |-> "neon-green", value |-> << "#", "3", "9", "f", "f", "1", "4" >>],
     [key |-> "grid-line",  value |-> << "#", "2", "7", "2", "7", "2", "a" >>] >>

(* plugins: [] *)
PluginsDecl == << >>

---------------------------------------------------------------------------
(* Evaluation of an object literal: the keys that have been declared, and  *)
(* for each key the value of its LAST declaration.                         *)

Keys(decls) == { decls[i].key : i \in 1..Len(decls) }

LastIndex(decls, k) ==
  CHOOSE i \in 1..Len(decls) :
    /\ decls[i].key = k
    /\ \A j \in 1..Len(decls) : decls[j].key = k => j <= i

ObjectLiteral(decls) ==
  [k \in Keys(decls) |-> decls[LastIndex(decls, k)].value]

(* Variant: extend carries a third key. *)
ThemeExtendWithSpacing ==
  [fontFamily |-> ObjectLiteral(FontFamilyDecl),
   colors     |-> ObjectLiteral(ColorsDecl),
   spacing    |-> ObjectLiteral(<< >>)]

(* theme: { extend: { fontFamily: {...}, colors: {...} } } *)
ThemeExtend ==
  [fontFamily |-> ObjectLiteral(FontFamilyDecl),
   colors     |-> ObjectLiteral(ColorsDecl)]

(* module.exports = { content, theme, plugins } *)
ModuleExports ==
  [content |-> ContentDecl,
   theme   |-> [extend |-> ThemeExtend],
   plugins |-> PluginsDecl]

---------------------------------------------------------------------------
(* The value of a variable that holds no object yet. *)
Undefined == [undefined |-> TRUE]

(* Alias names a consumer may ask for: every declared name and one that is *)
(* declared nowhere.                                                       *)
Aliases == Keys(FontFamilyDecl) \cup Keys(ColorsDecl) \cup {"unknown"}

(* obj[k] in JavaScript: the value when k is an own key, else undefined.   *)
Get(obj, k) ==
  IF k \in DOMAIN obj
    THEN [found |-> TRUE,  value |-> obj[k]]
    ELSE [found |-> FALSE, value |-> << >>]

Init ==
  /\ phase = "unloaded"
  /\ config = Undefined
  /\ reads = << >>

(* require('./tailwind.config.js'): the object literal is evaluated and    *)
(* becomes module.exports.                                                 *)
Load ==
  /\ phase = "unloaded"
  /\ phase' = "loaded"
  /\ config' = ModuleExports
  /\ UNCHANGED reads

(* Variant: a lookup that stores a default for a name it does not find. *)
LookupColorStoringDefault(k) ==
  /\ phase = "loaded"
  /\ Len(reads) < MaxReads
  /\ LET r == Get(config.theme.extend.colors, k)
     IN  /\ reads' = Append(reads, [field |-> "colors", key |-> k,
                                    found |-> r.found, value |-> r.value])
         /\ config' =
              IF r.found THEN config
              ELSE [config EXCEPT !.theme.extend.colors =
                      [a \in DOMAIN @ \cup {k} |->
                         IF a = k THEN << "#", "0", "0", "0", "0", "0", "0" >>
                         ELSE @[a]]]
  /\ UNCHANGED phase

(* config.theme.extend.colors[k] *)
LookupColor(k) ==
  /\ phase = "loaded"
  /\ Len(reads) < MaxReads
  /\ LET r == Get(config.theme.extend.colors, k)
     IN  reads' = Append(reads, [field |-> "colors", key |-> k,
                                 found |-> r.found, value |-> r.value])
  /\ UNCHANGED <<phase, config>>

(* config.theme.extend.fontFamily[k] *)
LookupFont(k) ==
  /\ phase = "loaded"
  /\ Len(reads) < MaxReads
  /\ LET r == Get(config.theme.extend.fontFamily, k)
     IN  reads' = Append(reads, [field |-> "fontFamily", key |-> k,
                                 found |-> r.found, value |-> r.value])
  /\ UNCHANGED <<phase, config>>

(* config.content *)
ReadContent ==
  /\ phase = "loaded"
  /\ Len(reads) < MaxReads
  /\ reads' = Append(reads, [field |-> "content", key |-> "content",
                             found |-> TRUE, value |-> config.content])
  /\ UNCHANGED <<phase, config>>

(* config.plugins *)
ReadPlugins ==
  /\ phase = "loaded"
  /\ Len(reads) < MaxReads
  /\ reads' = Append(reads, [field |-> "plugins", key |-> "plugins",
                             found |-> TRUE, value |-> config.plugins])
  /\ UNCHANGED <<phase, config>>

(* The invocation ends; nothing refers to the record any more.  The model  *)
(* keeps the record's last value so that it can still be compared.         *)
Discard ==
  /\ phase = "loaded"
  /\ phase' = "discarded"
  /\ UNCHANGED <<config, reads>>

Next ==
  \/ Load
  \/ \E k \in Aliases : LookupColor(k)
  \/ \E k \in Aliases : LookupFont(k)
  \/ ReadContent
  \/ ReadPlugins
  \/ Discard

Spec == Init /\ [][Next]_vars

---------------------------------------------------------------------------
(* Properties. *)

Loaded == phase # "unloaded"

Colors == config.theme.extend.colors
FontFamily == config.theme.extend.fontFamily

ReadsOf(f) == { i \in 1..Len(reads) : reads[i].field = f }

HexDigits ==
  { "0", "1", "2", "3", "4", "5", "6", "7", "8", "9",
    "a", "b", "c", "d", "e", "f", "A", "B", "C", "D", "E", "F" }

(* #[0-9A-Fa-f]{6} *)
IsHexColor(v) ==
  /\ Len(v) = 7
  /\ v[1] = "#"
  /\ \A i \in 2..7 : v[i] \in HexDigits

(* C1: every value of theme.extend.colors (the six aliases void,           *)
(* void-light, neon-cyan, neon-pink, neon-green, grid-line), and so every  *)
(* value a colour lookup returns, is '#' followed by six hex digits.       *)
C1_ColorsAreHex ==
  Loaded =>
    /\ DOMAIN Colors = { "void", "void-light", "neon-cyan", "neon-pink",
                         "neon-green", "grid-line" }
    /\ \A k \in DOMAIN Colors : IsHexColor(Colors[k])
    /\ \A i \in ReadsOf("colors") : reads[i].found => IsHexColor(reads[i].value)

C1_Witness ==
  /\ Len(reads) = MaxReads
  /\ \A i \in 1..Len(reads) : reads[i].field = "colors" /\ reads[i].found
  /\ reads[1].key # reads[2].key

(* C2: the content field of the loaded record, and every value read from   *)
(* it, is a sequence of at least one glob string.                          *)
C2_ContentNonEmpty ==
  Loaded =>
    /\ Len(config.content) >= 1
    /\ \A i \in 1..Len(config.content) : config.content[i] \in STRING
    /\ \A i \in ReadsOf("content") : Len(reads[i].value) >= 1

C2_Witness ==
  /\ phase = "loaded"
  /\ ReadsOf("content") # {}

(* A non-empty sequence of strings. *)
IsFontList(v) ==
  /\ Len(v) >= 1
  /\ \A i \in 1..Len(v) : v[i] \in STRING

(* C3: every alias of theme.extend.fontFamily (arcade, mono) maps to a     *)
(* non-empty sequence of strings, and so does every font lookup that finds *)
(* its alias.                                                              *)
C3_FontListsNonEmpty ==
  Loaded =>
    /\ DOMAIN FontFamily = { "arcade", "mono" }
    /\ \A k \in DOMAIN FontFamily : IsFontList(FontFamily[k])
    /\ \A i \in ReadsOf("fontFamily") :
         reads[i].found => IsFontList(reads[i].value)

C3_Witness ==
  /\ Len(reads) = MaxReads
  /\ \E i, j \in ReadsOf("fontFamily") :
       /\ reads[i].key = "arcade" /\ reads[i].found
       /\ reads[j].key = "mono" /\ reads[j].found

(* C4: the alias 'void' is declared exactly once and a lookup of it        *)
(* returns exactly '#09090b'.                                              *)
C4_VoidLookup ==
  Loaded =>
    /\ Cardinality({ i \in 1..Len(ColorsDecl) : ColorsDecl[i].key = "void" }) = 1
    /\ "void" \in DOMAIN Colors
    /\ Colors["void"] = << "#", "0", "9", "0", "9", "0", "b" >>
    /\ \A i \in ReadsOf("colors") :
         reads[i].key = "void" =>
           /\ reads[i].found
           /\ reads[i].value = << "#", "0", "9", "0", "9", "0", "b" >>

C4_Witness ==
  \E i \in ReadsOf("colors") : reads[i].key = "void"

(* C5: 'arcade' maps to exactly two entries, the primary font              *)
(* "Press Start 2P" (quoted) and then the only fallback, cursive.          *)
C5_ArcadeFonts ==
  Loaded =>
    /\ "arcade" \in DOMAIN FontFamily
    /\ Len(FontFamily["arcade"]) = 2
    /\ Head(FontFamily["arcade"]) = "\"Press Start 2P\""
    /\ Tail(FontFamily["arcade"]) = << "cursive" >>
    /\ \A i \in ReadsOf("fontFamily") :
         reads[i].key = "arcade" =>
           /\ reads[i].found
           /\ Len(reads[i].value) = 2
           /\ reads[i].value[1] = "\"Press Start 2P\""
           /\ reads[i].value[2] = "cursive"

C5_Witness ==
  \E i \in ReadsOf("fontFamily") : reads[i].key = "arcade"

(* No key of decls is declared twice. *)
NoDuplicateKey(decls) ==
  \A i, j \in 1..Len(decls) : decls[i].key = decls[j].key => i = j

(* Every declaration of decls is the one obj took its value from. *)
NothingOverwritten(decls, obj) ==
  \A i \in 1..Len(decls) :
    decls[i].key \in DOMAIN obj /\ obj[decls[i].key] = decls[i].value

(* C6: no alias of fontFamily or of colors is declared twice, so no        *)
(* declaration is overwritten and the mappings have 2 and 6 entries, one   *)
(* for each declaration.                                                   *)
C6_KeysUnique ==
  Loaded =>
    /\ NoDuplicateKey(FontFamilyDecl)
    /\ NoDuplicateKey(ColorsDecl)
    /\ NothingOverwritten(FontFamilyDecl, FontFamily)
    /\ NothingOverwritten(ColorsDecl, Colors)
    /\ Cardinality(DOMAIN FontFamily) = Len(FontFamilyDecl)
    /\ Cardinality(DOMAIN FontFamily) = 2
    /\ Cardinality(DOMAIN Colors) = Len(ColorsDecl)
    /\ Cardinality(DOMAIN Colors) = 6

C6_Witness ==
  /\ phase = "loaded"
  /\ Len(reads) = 0
  /\ config = ModuleExports

(* C7: once constructed, the record never changes: no read and no discard  *)
(* alters content, theme.extend or plugins.                                *)
C7_NeverMutated ==
  [][Loaded =>
       /\ config'.content = config.content
       /\ config'.theme.extend = config.theme.extend
       /\ config'.plugins = config.plugins
       /\ config' = config]_vars

C7_Witness ==
  /\ phase = "discarded"
  /\ Len(reads) = MaxReads
  /\ \E i \in ReadsOf("colors") : ~reads[i].found
  /\ config = ModuleExports

(* C9: the record has exactly the fields content, theme and plugins,       *)
(* plugins is empty, and theme.extend has exactly the keys fontFamily and  *)
(* colors.                                                                 *)
C9_Shape ==
  Loaded =>
    /\ DOMAIN config = { "content", "theme", "plugins" }
    /\ config.plugins = << >>
    /\ DOMAIN config.theme.extend = { "fontFamily", "colors" }
    /\ \A i \in ReadsOf("plugins") : Len(reads[i].value) = 0

C9_Witness ==
  /\ phase = "loaded"
  /\ ReadsOf("plugins") # {}

(* C10: no two colour aliases have the same value, and no alias names both *)
(* a font and a colour.                                                    *)
C10_ColorsInjective ==
  Loaded =>
    /\ \A a, b \in DOMAIN Colors : Colors[a] = Colors[b] => a = b
    /\ DOMAIN FontFamily \cap DOMAIN Colors = {}
    /\ \A i, j \in ReadsOf("colors") :
         (reads[i].found /\ reads[j].found /\ reads[i].value = reads[j].value)
           => reads[i].key = reads[j].key
    /\ \A i \in ReadsOf("colors"), j \in ReadsOf("fontFamily") :
         ~(reads[i].found /\ reads[j].found /\ reads[i].key = reads[j].key)

C10_Witness ==
  /\ Len(reads) = MaxReads
  /\ reads[1].field = "colors" /\ reads[1].found
  /\ reads[2].field = "fontFamily" /\ reads[2].found

====
